---- MODULE Spec2Model ----
(***************************************************************************)
(* Snapchat memories downloader: the pause gate (PipelineControl), the     *)
(* resumable state store (StateStore), the fetch engine (DownloadService), *)
(* the per-item stages and the orchestrator (PipelineRunner.run).          *)
(*                                                                         *)
(* Node.js runs one macrotask at a time and drains every microtask before  *)
(* the next macrotask.  An action of this module is one macrotask: an IPC  *)
(* request (run, pause, resume) or the completion of an I/O operation,     *)
(* followed by the synchronous code up to the next pending I/O.  Promise   *)
(* continuations (a task released from waitIfPaused, a queued job that     *)
(* PQueue can start) are microtasks: they are separate actions that take   *)
(* priority over every macrotask (see Quiet).                              *)
(*                                                                         *)
(* Spec is one run() call of a new process on the output directory left by *)
(* an earlier session, with pause and resume requests and a possible crash *)
(* at any point.  RejectSpec adds run() calls made while the run is        *)
(* active.  GateSpec is the PipelineControl object alone, driven by any    *)
(* sequence of calls.                                                      *)
(***************************************************************************)
EXTENDS Naturals, FiniteSets, Sequences, TLC

\* ------------------------------------------------------------------ bounds
NumItems == 2
MaxRetry == 2
MaxConcurrency == 2
MaxRuns == 1
TwiceRuns == 2
BackoffRetry == 7

Items == 1..NumItems
\* logical tasks that call waitIfPaused: 0 is the orchestrator's stage loop,
\* i > 0 is the fetch job of item i
MainTask == 0
Tasks == 0..NumItems
\* state-change listeners: the fetch queue of DownloadService, and one more
\* independent observer
Listeners == {"queue", "observer"}

VARIABLES
  \* PipelineControl
  paused,        \* _paused
  waiters,       \* tasks whose resolve callback is in the waiters array
  listeners,     \* subscribed listeners
  suspended,     \* tasks awaiting the promise created by waitIfPaused
  released,      \* tasks whose promise is resolved, continuation not yet run
  delivered,     \* per listener: {v} for the last paused value v it was called with
  notified,      \* per listener: calls received during the last gate call
  observing,     \* listener calls are recorded in delivered and notified
  lastCall,      \* the last gate call made directly on the gate (GateSpec)
  tick,          \* flips at every direct gate call
  \* DownloadService
  queuePaused,   \* PQueue.isPaused
  options,       \* DownloadServiceOptions: retryLimit, concurrency
  jobPc,         \* per item: position of its queue job
  attempt,       \* per item: the loop variable of processEntry
  jobResult,     \* per item: how its job ended in the current run
  \* StateStore and the file system
  store,         \* StateStore.state.entries (in memory)
  disk,          \* entries of state.json
  dlFile,        \* items whose file exists in downloads/
  finalFile,     \* items whose file exists in memories/
  \* PipelineRunner
  isRunning,
  pc,            \* position of the admitted run() call
  request,       \* PipelineRunRequest.options flags
  entries,       \* MemoryEntry per parsed item
  inRun,         \* indexes of `entries` after the retry filter
  stateSnapshot, \* the snapshot taken after parse
  filesAtStart,  \* downloads/ files present when the run was admitted
  strategy,      \* DedupOptions.strategy
  urlMap,        \* DedupService.run: items recorded as first with their URL
  hashMap,       \* DedupService.run: items recorded as first with their hash
  cursor,        \* loop position of the current sequential stage
  stagePc,       \* position of the stage loop inside its iteration
  lastResult,    \* how the last run() call ended
  rejected,      \* a run() call was rejected since the active run began
  runs,          \* run() calls admitted so far
  loaded,        \* the table stateStore.load() left in the store
  probe,         \* VerifySpec: what ensureFileIntegrity finds out about the file
  \* container payloads
  payload,       \* per item: what the remote delivers for it
  isZipPayload,  \* items whose entry has the isZipPayload flag set
  extractDirs    \* items with a temporary extraction directory in os.tmpdir()

gateVars == <<paused, waiters, listeners, suspended, released, delivered, notified,
              queuePaused, observing>>
callVars == <<lastCall, tick>>
fetchVars == <<options, jobPc, attempt, jobResult>>
storeVars == <<store, disk, dlFile, finalFile>>
dedupVars == <<strategy, urlMap, hashMap>>
runVars == <<isRunning, pc, request, entries, inRun, stateSnapshot, filesAtStart,
             cursor, stagePc, lastResult, rejected, runs, loaded, dedupVars>>
zipVars == <<payload, isZipPayload, extractDirs>>
vars == <<gateVars, callVars, fetchVars, storeVars, runVars, probe, zipVars>>

\* ------------------------------------------------------- PipelineControl

\* the listener DownloadService registers: queue.pause() / queue.start()
onControlChange(v) == v

\* emit: every subscribed listener is called once with the paused value.
\* The calls are recorded in delivered and notified while observing is set
emit(v) ==
  /\ queuePaused' = IF "queue" \in listeners THEN onControlChange(v) ELSE queuePaused
  /\ IF observing
     THEN /\ delivered' = [l \in Listeners |-> IF l \in listeners THEN {v} ELSE delivered[l]]
          /\ notified' = [l \in Listeners |-> IF l \in listeners THEN 1 ELSE 0]
     ELSE UNCHANGED <<delivered, notified>>

\* a gate call that does not reach emit
noEmit ==
  /\ notified' = [l \in Listeners |-> 0]
  /\ UNCHANGED <<delivered, queuePaused>>

pause_noGuard ==
  /\ paused' = TRUE
  /\ UNCHANGED <<waiters, suspended, released>>
  /\ emit(TRUE)

pause ==
  IF paused
  THEN UNCHANGED <<paused, waiters, suspended, released>> /\ noEmit
  ELSE /\ paused' = TRUE
       /\ UNCHANGED <<waiters, suspended, released>>
       /\ emit(TRUE)

resume_keepsPaused ==
  IF ~paused
  THEN UNCHANGED <<paused, waiters, suspended, released>> /\ noEmit
  ELSE /\ paused' = TRUE
       /\ waiters' = {}
       /\ suspended' = suspended \ waiters
       /\ released' = released \cup (waiters \cap suspended)
       /\ emit(FALSE)

resume ==
  IF ~paused
  THEN UNCHANGED <<paused, waiters, suspended, released>> /\ noEmit
  ELSE /\ paused' = FALSE
       /\ waiters' = {}
       /\ suspended' = suspended \ waiters
       /\ released' = released \cup (waiters \cap suspended)
       /\ emit(FALSE)

reset ==
  /\ paused' = FALSE
  /\ waiters' = {}
  /\ UNCHANGED <<suspended, released>>
  /\ noEmit

\* waitIfPaused called by task t: returns at once when not paused, otherwise
\* the task is suspended on a promise whose resolver joins the waiters
waitIfPaused(t) ==
  IF ~paused
  THEN UNCHANGED <<waiters, suspended>>
  ELSE /\ waiters' = waiters \cup {t}
       /\ suspended' = suspended \cup {t}

onChange(l) == listeners' = listeners \cup {l}
unsubscribe(l) == listeners' = listeners \ {l}

\* no promise continuation is pending
NoMicrotask == released = {}

\* ------------------------------------------ the gate driven directly
\* Any sequence of pause(), resume(), reset(), waitIfPaused(), onChange()
\* and unsubscribe calls on a fresh PipelineControl.

GatePause ==
  /\ NoMicrotask
  /\ pause
  /\ UNCHANGED <<listeners, observing>>
  /\ lastCall' = "pause" /\ tick' = ~tick
  /\ UNCHANGED <<fetchVars, storeVars, runVars, probe, zipVars>>

GateResume ==
  /\ NoMicrotask
  /\ resume
  /\ UNCHANGED <<listeners, observing>>
  /\ lastCall' = "resume" /\ tick' = ~tick
  /\ UNCHANGED <<fetchVars, storeVars, runVars, probe, zipVars>>

GateReset ==
  /\ NoMicrotask
  /\ reset
  /\ UNCHANGED <<listeners, observing>>
  /\ lastCall' = "reset" /\ tick' = ~tick
  /\ UNCHANGED <<fetchVars, storeVars, runVars, probe, zipVars>>

GateWait(t) ==
  /\ NoMicrotask
  /\ t \notin suspended
  /\ waitIfPaused(t)
  /\ lastCall' = "waitIfPaused" /\ tick' = ~tick
  /\ UNCHANGED <<paused, listeners, released, delivered, notified, queuePaused, observing>>
  /\ UNCHANGED <<fetchVars, storeVars, runVars, probe, zipVars>>

\* the continuation of a released task: waitIfPaused returns to its caller
GateContinue(t) ==
  /\ t \in released
  /\ released' = released \ {t}
  /\ UNCHANGED <<paused, waiters, listeners, suspended, delivered, notified, queuePaused, observing>>
  /\ UNCHANGED <<callVars, probe, zipVars, fetchVars, storeVars, runVars>>

GateOnChange(l) ==
  /\ NoMicrotask
  /\ l \notin listeners
  /\ onChange(l)
  /\ lastCall' = "onChange" /\ tick' = ~tick
  /\ UNCHANGED <<paused, waiters, suspended, released, delivered, notified, queuePaused, observing>>
  /\ UNCHANGED <<fetchVars, storeVars, runVars, probe, zipVars>>

GateUnsubscribe(l) ==
  /\ NoMicrotask
  /\ l \in listeners
  /\ unsubscribe(l)
  /\ lastCall' = "unsubscribe" /\ tick' = ~tick
  /\ UNCHANGED <<paused, waiters, suspended, released, delivered, notified, queuePaused, observing>>
  /\ UNCHANGED <<fetchVars, storeVars, runVars, probe, zipVars>>

\* ------------------------------------------------- records and Init

\* no record stored under an index
NoRecord == [downloadStatus |-> "none", downloadedPath |-> FALSE, attempts |-> 0,
             errors |-> 0, failureStage |-> "none"]

\* IndexParser.normalizeEntry: a freshly parsed item (attempts 0 and
\* failureStage "none" stand for undefined, errors is the length of the list)
PendingEntry == [downloadStatus |-> "pending", downloadedPath |-> FALSE,
                 finalPath |-> "none", attempts |-> 0, errors |-> 0,
                 failureStage |-> "none", contentHash |-> 0]

NoRequest == [retryFailedOnly |-> FALSE, dryRun |-> FALSE, verifyOnly |-> FALSE]
NoOptions == [retryLimit |-> 0, concurrency |-> 1, throttle |-> FALSE]
NoResult == [kind |-> "none", at |-> "none", cause |-> "none"]

\* what ensureFileIntegrity reads: the entry's mediaType, the magic type of
\* the file, whether it has bytes, whether sharp / ffprobe accept it, whether
\* its hash equals a recorded contentHash
MediaTypes == {"image", "video", "unknown"}
MagicTypes == {"jpg", "png", "zip", "mp4", "mov", "unknown"}
Probes == [mediaType : MediaTypes, magic : MagicTypes, nonEmpty : BOOLEAN,
           toolOk : BOOLEAN, hashOk : BOOLEAN]
NoProbe == [mediaType |-> "unknown", magic |-> "unknown", nonEmpty |-> TRUE,
            toolOk |-> TRUE, hashOk |-> TRUE]

\* what the remote delivers for an item: the magic type of the body and the
\* extension determineExtension derives for it
Payloads == [magic : {"zip", "jpg"}, ext : {".zip", ".jpg"}]
PlainPayload == [magic |-> "jpg", ext |-> ".jpg"]

\* the table a new StateStore holds, and clear()
clear == [i \in Items |-> NoRecord]

\* the records an earlier session can have left in state.json for an item:
\* none, a download that took MaxRetry attempts, a failure after MaxRetry
\* attempts
PriorDownloaded == [downloadStatus |-> "downloaded", downloadedPath |-> TRUE,
                    attempts |-> MaxRetry, errors |-> 0, failureStage |-> "none"]
PriorFailed == [downloadStatus |-> "failed", downloadedPath |-> FALSE,
                attempts |-> MaxRetry, errors |-> MaxRetry, failureStage |-> "download"]
PriorTables == [Items -> {NoRecord, PriorDownloaded, PriorFailed}]

\* a new process on the output directory of an earlier session: state.json
\* holds `prior`, the downloaded files `files` are still in downloads/
\* (obs: listener calls are recorded)
Start(obs, prior, files) ==
  /\ paused = FALSE /\ waiters = {} /\ listeners = {}
  /\ suspended = {} /\ released = {}
  /\ delivered = [l \in Listeners |-> {}]
  /\ notified = [l \in Listeners |-> 0]
  /\ observing = obs
  /\ lastCall = "none" /\ tick = FALSE
  /\ queuePaused = FALSE /\ options = NoOptions
  /\ jobPc = [i \in Items |-> "none"]
  /\ attempt = [i \in Items |-> 0]
  /\ jobResult = [i \in Items |-> "none"]
  /\ store = [i \in Items |-> NoRecord]
  /\ disk = prior
  /\ dlFile = files
  /\ finalFile = {i \in Items : prior[i].downloadStatus = "downloaded"}
  /\ isRunning = FALSE /\ pc = "idle" /\ request = NoRequest
  /\ entries = [i \in Items |-> PendingEntry]
  /\ inRun = {}
  /\ stateSnapshot = [i \in Items |-> NoRecord]
  /\ filesAtStart = {}
  /\ cursor = 0 /\ stagePc = "none"
  /\ lastResult = NoResult /\ rejected = FALSE /\ runs = 0
  /\ loaded = clear
  /\ probe = NoProbe
  /\ isZipPayload = {} /\ extractDirs = {}
  /\ strategy = "none" /\ urlMap = {} /\ hashMap = {}

\* every item is plain media
Plain == payload = [i \in Items |-> PlainPayload]

Init ==
  /\ Plain
  /\ \E prior \in PriorTables :
       \E files \in SUBSET {i \in Items : prior[i].downloadStatus = "downloaded"} :
         Start(FALSE, prior, files)

\* ------------------------------------------------------------ StateStore

\* state.json opened for writing and not yet written in full: truncated or
\* partial, not parseable
Torn == [i \in Items |-> [NoRecord EXCEPT !.downloadStatus = "torn"]]

\* upsert: merge the given fields into the record of that index
upsert_clobber(st, i, fields) ==
  [j \in Items |-> IF j = i THEN fields @@ st[i] ELSE NoRecord]
upsert_replace(st, i, fields) == [st EXCEPT ![i] = fields @@ NoRecord]
upsert(st, i, fields) == [st EXCEPT ![i] = fields @@ st[i]]

\* get(index): the stored record itself (NoRecord: undefined)
get(st, i) == st[i]

\* snapshot(): the table of records by index
snapshot == store

\* ------------------------------------------------------- scheduling

Running(i) ==
  jobPc[i] \in {"gate1", "checking", "fetching", "backoff", "gate2", "throttle"}
Queued == {i \in Items : jobPc[i] = "queued"}

\* PQueue starts the first queued job when it is not paused and a slot is free
CanDispatch_noLimit ==
  /\ pc = "download"
  /\ Queued # {}
  /\ ~queuePaused

CanDispatch ==
  /\ pc = "download"
  /\ Queued # {}
  /\ ~queuePaused
  /\ Cardinality({i \in Items : Running(i)}) < options.concurrency

AllJobsDone == \A i \in inRun : jobPc[i] = "done"

\* a promise continuation is pending: it runs before any macrotask
Pending ==
  \/ released # {}
  \/ CanDispatch
  \/ pc = "download" /\ AllJobsDone
  \/ stagePc = "next"
Quiet == ~Pending

\* the first index of the run's entries that is >= k (NumItems + 1: none)
Succ(k) == IF \E j \in inRun : j >= k
           THEN CHOOSE j \in inRun : j >= k /\ \A m \in inRun : m >= k => j <= m
           ELSE NumItems + 1

\* -------------------------------------------------- PipelineRunner.run

\* the finally block of run(): force-resume the gate, clear the flag
Finally(kind, at, cause) ==
  /\ resume
  /\ UNCHANGED <<listeners, observing>>
  /\ isRunning' = FALSE
  /\ pc' = "idle"
  /\ stagePc' = "none"
  /\ lastResult' = [kind |-> kind, at |-> at, cause |-> cause]

\* run() called while a run is active: rejected before the try block
RunReject_inTry ==
  /\ isRunning
  /\ Quiet
  /\ rejected' = TRUE
  /\ resume
  /\ isRunning' = FALSE
  /\ UNCHANGED <<listeners, observing, callVars, probe, zipVars, fetchVars, storeVars>>
  /\ UNCHANGED <<pc, request, entries, inRun, stateSnapshot, filesAtStart, cursor,
                 stagePc, lastResult, runs, loaded, dedupVars>>

RunReject ==
  /\ isRunning
  /\ Quiet
  /\ rejected' = TRUE
  /\ UNCHANGED <<gateVars, callVars, probe, zipVars, fetchVars, storeVars>>
  /\ UNCHANGED <<isRunning, pc, request, entries, inRun, stateSnapshot, filesAtStart,
                 cursor, stagePc, lastResult, runs, loaded, dedupVars>>

\* run() admitted: isRunning, control.reset(), new StateStore, and
\* ensureAppDirectories() pending
Admit(flags, limit) ==
  /\ ~isRunning
  /\ Quiet
  /\ runs < limit
  /\ runs' = runs + 1
  /\ loaded' = clear
  /\ isRunning' = TRUE
  /\ reset
  /\ UNCHANGED <<listeners, observing>>
  /\ pc' = "ensureAppDirectories"
  /\ request' = flags
  /\ store' = clear
  /\ entries' = [i \in Items |-> PendingEntry]
  /\ inRun' = {}
  /\ stateSnapshot' = [i \in Items |-> NoRecord]
  /\ filesAtStart' = dlFile
  /\ cursor' = 0 /\ stagePc' = "none"
  /\ lastResult' = NoResult /\ rejected' = FALSE
  /\ strategy' = "none" /\ urlMap' = {} /\ hashMap' = {}
  /\ options' = NoOptions
  /\ jobPc' = [i \in Items |-> "none"]
  /\ attempt' = [i \in Items |-> 0]
  /\ jobResult' = [i \in Items |-> "none"]
  /\ isZipPayload' = {}
  /\ UNCHANGED <<callVars, probe, payload, extractDirs, disk, dlFile, finalFile>>

RunAdmit(flags) == Admit(flags, MaxRuns)

\* ensureAppDirectories() resolves: stateStore.load() pending
EnsureAppDirectoriesDone ==
  /\ pc = "ensureAppDirectories" /\ Quiet
  /\ pc' = "load"
  /\ UNCHANGED <<gateVars, callVars, probe, zipVars, fetchVars, storeVars>>
  /\ UNCHANGED <<isRunning, request, entries, inRun, stateSnapshot, filesAtStart,
                 cursor, stagePc, lastResult, rejected, runs, loaded, dedupVars>>

\* ensureAppDirectories() rejects: the call is outside the try block, so
\* run() rejects without reaching its finally block
EnsureAppDirectoriesFail ==
  /\ pc = "ensureAppDirectories" /\ Quiet
  /\ pc' = "idle"
  /\ lastResult' = [kind |-> "error", at |-> "ensureAppDirectories", cause |-> "run"]
  /\ UNCHANGED <<gateVars, callVars, probe, zipVars, fetchVars, storeVars>>
  /\ UNCHANGED <<isRunning, request, entries, inRun, stateSnapshot, filesAtStart,
                 cursor, stagePc, rejected, runs, loaded, dedupVars>>

LoadDone_rejects(ok) ==
  /\ pc = "load" /\ Quiet
  /\ ok => disk # Torn
  /\ store' = IF ok THEN disk ELSE clear
  /\ loaded' = store'
  /\ IF ok
     THEN pc' = "import" /\ UNCHANGED lastResult
     ELSE /\ pc' = "idle"
          /\ lastResult' = [kind |-> "error", at |-> "load", cause |-> "run"]
  /\ UNCHANGED <<gateVars, callVars, probe, zipVars, fetchVars, disk, dlFile, finalFile>>
  /\ UNCHANGED <<isRunning, request, entries, inRun, stateSnapshot, filesAtStart,
                 cursor, stagePc, rejected, runs, dedupVars>>

\* stateStore.load() resolves with the table of state.json, or rejects and
\* the caller clears the store; then importService.extract() is pending
LoadDone(ok) ==
  /\ pc = "load" /\ Quiet
  /\ ok => disk # Torn
  /\ store' = IF ok THEN disk ELSE clear
  /\ loaded' = store'
  /\ pc' = "import"
  /\ UNCHANGED <<gateVars, callVars, probe, zipVars, fetchVars, disk, dlFile, finalFile>>
  /\ UNCHANGED <<isRunning, request, entries, inRun, stateSnapshot, filesAtStart,
                 cursor, stagePc, lastResult, rejected, runs, dedupVars>>

\* importService.extract() resolves: parser.parse() pending
ImportDone ==
  /\ pc = "import" /\ Quiet
  /\ pc' = "parse"
  /\ UNCHANGED <<gateVars, callVars, probe, zipVars, fetchVars, storeVars>>
  /\ UNCHANGED <<isRunning, request, entries, inRun, stateSnapshot, filesAtStart,
                 cursor, stagePc, lastResult, rejected, runs, loaded, dedupVars>>

\* restoreEntriesFromState
restoreEntriesFromState(es, snap) ==
  [i \in Items |->
     IF snap[i].downloadStatus = "none" THEN es[i]
     ELSE [es[i] EXCEPT !.downloadStatus = snap[i].downloadStatus,
                        !.downloadedPath = snap[i].downloadedPath \/ @]]

\* the retry-failed-only filter
failedIndexes(snap) == {i \in Items : snap[i].downloadStatus = "failed"}
retryFilter_all(flags, snap) == Items
retryFilter(flags, snap) ==
  IF flags.retryFailedOnly THEN failedIndexes(snap) ELSE Items

\* run() returns a summary right after the filter: nothing to retry, or a
\* dry run
stopsAfterParse_ignoresDryRun(flags, sel) == flags.retryFailedOnly /\ sel = {}
stopsAfterParse(flags, sel) == (flags.retryFailedOnly /\ sel = {}) \/ flags.dryRun

\* parser.parse() resolves: restore, filter, then either an early summary
\* (nothing to retry, dry run) or the three ensureDir calls are pending
ParseDone ==
  /\ pc = "parse" /\ Quiet
  /\ stateSnapshot' = snapshot
  /\ entries' = restoreEntriesFromState([i \in Items |-> PendingEntry], snapshot)
  /\ inRun' = retryFilter(request, snapshot)
  /\ IF stopsAfterParse(request, inRun')
     THEN Finally("summary", "parse", "none")
     ELSE /\ pc' = "ensureDirs"
          /\ UNCHANGED <<gateVars, isRunning, stagePc, lastResult>>
  /\ UNCHANGED <<callVars, probe, zipVars, fetchVars, storeVars>>
  /\ UNCHANGED <<request, filesAtStart, cursor, rejected, runs, loaded, dedupVars>>

\* the awaits of the try block outside the per-item loops: import, parse,
\* the directory preparations, report, save and the report artifacts
failingSteps == {"import", "parse", "ensureDirs", "downloadDirs", "postProcessDirs",
                 "dedupDirs", "populate", "report", "save", "saving", "writeReport"}

\* one of them rejects: the exception leaves run() through finally
StepFail ==
  /\ pc \in failingSteps /\ Quiet
  /\ Finally("error", pc, "run")
  /\ UNCHANGED <<callVars, probe, zipVars, fetchVars, storeVars>>
  /\ UNCHANGED <<request, entries, inRun, stateSnapshot, filesAtStart, cursor,
                 rejected, runs, loaded, dedupVars>>

\* the three ensureDir calls resolve.  verifyOnly: populateFinalPathsFromDisk
\* is pending.  Otherwise a DownloadService is constructed (its queue follows
\* the gate from now on) and the ensureDir calls of its run() are pending
EnsureDirsDone(limit, width, throttle) ==
  /\ pc = "ensureDirs" /\ Quiet
  /\ IF request.verifyOnly
     THEN /\ pc' = "populate"
          /\ UNCHANGED <<listeners, queuePaused, options>>
     ELSE /\ pc' = "downloadDirs"
          /\ options' = [retryLimit |-> limit, concurrency |-> width,
                          throttle |-> throttle]
          /\ onChange("queue")
          /\ queuePaused' = paused
  /\ UNCHANGED <<paused, waiters, suspended, released, delivered, notified, observing>>
  /\ UNCHANGED <<callVars, probe, zipVars, jobPc, attempt, jobResult, storeVars>>
  /\ UNCHANGED <<isRunning, request, entries, inRun, stateSnapshot, filesAtStart,
                 cursor, stagePc, lastResult, rejected, runs, loaded, dedupVars>>

\* ------------------------------------------------------ DownloadService

\* DownloadService.run: one queue job is added per entry
DownloadDirsDone ==
  /\ pc = "downloadDirs" /\ Quiet
  /\ pc' = "download"
  /\ jobPc' = [i \in Items |-> IF i \in inRun THEN "queued" ELSE "none"]
  /\ UNCHANGED <<gateVars, callVars, probe, zipVars, options, attempt, jobResult, storeVars>>
  /\ UNCHANGED <<isRunning, request, entries, inRun, stateSnapshot, filesAtStart,
                 cursor, stagePc, lastResult, rejected, runs, loaded, dedupVars>>

\* the loop head of processEntry with attempt = a: the next attempt begins,
\* or the loop is over and the entry is returned as it is
LoopHead(i, a) ==
  IF a <= options.retryLimit
  THEN /\ jobPc' = [jobPc EXCEPT ![i] = "fetching"]
       /\ attempt' = [attempt EXCEPT ![i] = a]
       /\ UNCHANGED <<jobResult, entries>>
  ELSE /\ jobPc' = [jobPc EXCEPT ![i] = "done"]
       /\ jobResult' = [jobResult EXCEPT ![i] = "returned"]
       /\ UNCHANGED <<attempt, entries>>

\* processEntry after its first waitIfPaused: the persisted record decides
\* whether the existence of the recorded file is looked up
resumable(i) == store[i].downloadStatus = "downloaded" /\ store[i].downloadedPath

AfterGate1(i) ==
  IF resumable(i)
  THEN /\ jobPc' = [jobPc EXCEPT ![i] = "checking"]
       /\ UNCHANGED <<attempt, jobResult, entries>>
  ELSE LoopHead(i, 1)

\* PQueue starts the first queued job: processEntry runs up to its first
\* pending promise
Dispatch(i) ==
  /\ CanDispatch /\ released = {}
  /\ i \in Queued /\ \A j \in Queued : i <= j
  /\ waitIfPaused(i)
  /\ IF paused
     THEN /\ jobPc' = [jobPc EXCEPT ![i] = "gate1"]
          /\ UNCHANGED <<attempt, jobResult, entries>>
     ELSE AfterGate1(i)
  /\ UNCHANGED <<paused, listeners, released, delivered, notified, queuePaused, observing>>
  /\ UNCHANGED <<callVars, probe, zipVars, options, storeVars>>
  /\ UNCHANGED <<isRunning, pc, request, inRun, stateSnapshot, filesAtStart,
                 cursor, stagePc, lastResult, rejected, runs, loaded, dedupVars>>

\* a fetch job released from waitIfPaused continues
ContinueJob(i) ==
  /\ i \in released /\ i # MainTask
  /\ released' = released \ {i}
  /\ IF jobPc[i] = "gate1" THEN AfterGate1(i) ELSE LoopHead(i, attempt[i] + 1)
  /\ UNCHANGED <<paused, waiters, listeners, suspended, delivered, notified, queuePaused, observing>>
  /\ UNCHANGED <<callVars, probe, zipVars, options, storeVars>>
  /\ UNCHANGED <<isRunning, pc, request, inRun, stateSnapshot, filesAtStart,
                 cursor, stagePc, lastResult, rejected, runs, loaded, dedupVars>>

\* fs.pathExists(persisted.downloadedPath): the recorded file is in downloads/
pathExists_always(i) == TRUE
pathExists(i) == i \in dlFile

\* fs.pathExists(persisted.downloadedPath) resolves
CheckDone(i) ==
  /\ pc = "download" /\ jobPc[i] = "checking" /\ Quiet
  /\ IF pathExists(i)
     THEN /\ entries' = [entries EXCEPT ![i].downloadStatus = "downloaded",
                                        ![i].downloadedPath = store[i].downloadedPath,
                                        ![i].attempts = store[i].attempts]
          /\ jobPc' = [jobPc EXCEPT ![i] = "done"]
          /\ jobResult' = [jobResult EXCEPT ![i] = "skipped"]
          /\ UNCHANGED attempt
     ELSE LoopHead(i, 1)
  /\ UNCHANGED <<gateVars, callVars, probe, zipVars, options, storeVars>>
  /\ UNCHANGED <<isRunning, pc, request, inRun, stateSnapshot, filesAtStart,
                 cursor, stagePc, lastResult, rejected, runs, loaded, dedupVars>>

\* fetchAndWrite resolves: the file is in downloads/, the entry and the
\* state table record the download; with throttleDelayMs > 0 the job then
\* sleeps before it returns
FetchOkFrom(i, phase) ==
  /\ pc = "download" /\ jobPc[i] = phase /\ Quiet
  /\ dlFile' = dlFile \cup {i}
  /\ entries' = [entries EXCEPT ![i].downloadStatus = "downloaded",
                                ![i].downloadedPath = TRUE,
                                ![i].attempts = attempt[i]]
  /\ store' = upsert(store, i, [downloadStatus |-> "downloaded",
                                downloadedPath |-> TRUE, attempts |-> attempt[i]])
  /\ IF options.throttle
     THEN jobPc' = [jobPc EXCEPT ![i] = "throttle"] /\ UNCHANGED jobResult
     ELSE /\ jobPc' = [jobPc EXCEPT ![i] = "done"]
          /\ jobResult' = [jobResult EXCEPT ![i] = "downloaded"]
  /\ isZipPayload' = IF payload[i].magic = "zip" THEN isZipPayload \cup {i}
                      ELSE isZipPayload \ {i}
  /\ UNCHANGED <<gateVars, callVars, probe, payload, extractDirs, options, attempt,
                 disk, finalFile>>
  /\ UNCHANGED <<isRunning, pc, request, inRun, stateSnapshot, filesAtStart,
                 cursor, stagePc, lastResult, rejected, runs, loaded, dedupVars>>

FetchOk(i) == FetchOkFrom(i, "fetching")

\* the throttle delay is over: processEntry returns the entry
ThrottleDone(i) ==
  /\ pc = "download" /\ jobPc[i] = "throttle" /\ Quiet
  /\ jobPc' = [jobPc EXCEPT ![i] = "done"]
  /\ jobResult' = [jobResult EXCEPT ![i] = "downloaded"]
  /\ UNCHANGED <<gateVars, callVars, probe, zipVars, options, attempt, entries, storeVars>>
  /\ UNCHANGED <<isRunning, pc, request, inRun, stateSnapshot, filesAtStart,
                 cursor, stagePc, lastResult, rejected, runs, loaded, dedupVars>>

\* the retry limit is reached with this attempt
exhausted_offByOne(a) == a > options.retryLimit
exhausted(a) == a >= options.retryLimit

\* fetchAndWrite rejects.  On the last attempt the entry is marked failed,
\* the failure is upserted and the error is rethrown to the catch of run();
\* otherwise the backoff delay is pending
FetchFailFrom(i, phase) ==
  /\ pc = "download" /\ jobPc[i] = phase /\ Quiet
  /\ IF exhausted(attempt[i])
     THEN /\ entries' = [entries EXCEPT ![i].downloadStatus = "failed",
                                        ![i].attempts = attempt[i],
                                        ![i].failureStage = "download",
                                        ![i].errors = @ + 2]
          /\ store' = upsert(store, i, [downloadStatus |-> "failed",
                                        errors |-> entries[i].errors + 1,
                                        attempts |-> attempt[i],
                                        failureStage |-> "download"])
          /\ jobPc' = [jobPc EXCEPT ![i] = "done"]
          /\ jobResult' = [jobResult EXCEPT ![i] = "failed"]
     ELSE /\ entries' = [entries EXCEPT ![i].errors = @ + 1]
          /\ jobPc' = [jobPc EXCEPT ![i] = "backoff"]
          /\ UNCHANGED <<store, jobResult>>
  /\ UNCHANGED <<gateVars, callVars, probe, zipVars, options, attempt, disk, dlFile, finalFile>>
  /\ UNCHANGED <<isRunning, pc, request, inRun, stateSnapshot, filesAtStart,
                 cursor, stagePc, lastResult, rejected, runs, loaded, dedupVars>>

\* Math.min(2000 * 2 ** (attempt - 1), 30000): the delay slept after the
\* failed attempt
BackoffBaseMs == 2000
BackoffCeilingMs == 30000
Min(a, b) == IF a <= b THEN a ELSE b
backoffDelay_linear(a) == Min(BackoffBaseMs * a, BackoffCeilingMs)
backoffDelay(a) == Min(BackoffBaseMs * 2 ^ (a - 1), BackoffCeilingMs)

\* the delay job i sleeps while it is in backoff
delay(i) == backoffDelay(attempt[i])

FetchFail(i) == FetchFailFrom(i, "fetching")

\* fetchAndWrite in its phases.  It first awaits resolveUrl: proxyPost for
\* an entry with the POST hint, the URL itself otherwise
AttemptBegin(i) ==
  /\ pc = "download" /\ jobPc[i] = "fetching" /\ Quiet
  /\ \E phase \in {"resolving", "headers"} : jobPc' = [jobPc EXCEPT ![i] = phase]
  /\ UNCHANGED <<gateVars, callVars, probe, zipVars, options, attempt, jobResult, storeVars>>
  /\ UNCHANGED runVars

\* the remote answers: proxyPost returns the URL and the timer is armed for
\* the GET, or the response headers arrive, the timer is cleared and the
\* body is piped to the temp file
RemoteAnswers(i) ==
  /\ pc = "download" /\ jobPc[i] \in {"resolving", "headers"} /\ Quiet
  /\ jobPc' = [jobPc EXCEPT ![i] = IF @ = "resolving" THEN "headers" ELSE "body"]
  /\ UNCHANGED <<gateVars, callVars, probe, zipVars, options, attempt, jobResult, storeVars>>
  /\ UNCHANGED runVars

\* the remote answers with an error or the connection breaks
RemoteFails(i) ==
  \E phase \in {"resolving", "headers", "body"} : FetchFailFrom(i, phase)

\* the body has been written and moved to downloads/
BodyDone(i) == FetchOkFrom(i, "body")

\* the attempt timer fires: it is armed from the call of fetch to the
\* arrival of the response headers; the abort makes fetch reject
TimerFires(i) == FetchFailFrom(i, "headers")

\* the backoff delay is over: waitIfPaused, then the next attempt
BackoffDone(i) ==
  /\ pc = "download" /\ jobPc[i] = "backoff" /\ Quiet
  /\ waitIfPaused(i)
  /\ IF paused
     THEN /\ jobPc' = [jobPc EXCEPT ![i] = "gate2"]
          /\ UNCHANGED <<attempt, jobResult, entries>>
     ELSE LoopHead(i, attempt[i] + 1)
  /\ UNCHANGED <<paused, listeners, released, delivered, notified, queuePaused, observing>>
  /\ UNCHANGED <<callVars, probe, zipVars, options, storeVars>>
  /\ UNCHANGED <<isRunning, pc, request, inRun, stateSnapshot, filesAtStart,
                 cursor, stagePc, lastResult, rejected, runs, loaded, dedupVars>>

\* every job has settled: the listener is removed, the DownloadService is
\* dropped and the ensureDir calls of PostProcessService.run are pending
DownloadDone ==
  /\ pc = "download" /\ AllJobsDone /\ released = {}
  /\ unsubscribe("queue")
  /\ pc' = "postProcessDirs"
  /\ options' = NoOptions
  /\ jobPc' = [i \in Items |-> "none"]
  /\ attempt' = [i \in Items |-> 0]
  /\ UNCHANGED <<paused, waiters, suspended, released, delivered, notified, queuePaused, observing>>
  /\ UNCHANGED <<callVars, probe, zipVars, jobResult, storeVars>>
  /\ UNCHANGED <<isRunning, request, entries, inRun, stateSnapshot, filesAtStart,
                 cursor, stagePc, lastResult, rejected, runs, loaded, dedupVars>>

\* ----------------------------------------------- the sequential stages

gatedStages == {"postProcess", "metadata", "verify"}

\* the file an entry's finalPath names exists
finalExists(k) ==
  \/ entries[k].finalPath = "final" /\ k \in finalFile
  \/ entries[k].finalPath = "duplicates"

\* the `continue` condition at the top of a stage's loop body
skips_failedNotSkipped(stage, k) ==
  CASE stage = "postProcess" ->
         entries[k].downloadStatus # "downloaded" \/ ~entries[k].downloadedPath
    [] stage = "metadata" ->
         entries[k].finalPath = "none" \/ entries[k].downloadStatus # "processed"
    [] OTHER ->
         entries[k].finalPath = "none"

skips(stage, k) ==
  CASE stage = "postProcess" ->
         entries[k].downloadStatus # "downloaded" \/ ~entries[k].downloadedPath
    [] stage = "metadata" ->
         entries[k].finalPath = "none" \/ entries[k].downloadStatus # "processed"
    [] OTHER ->
         entries[k].finalPath = "none" \/ entries[k].downloadStatus = "failed"

\* the extension of the path fetchAndWrite returns: the one derived from the
\* response, with .zip appended when the body is an archive and the name
\* does not end in .zip
fetchedExt_noRename(p) == p.ext
fetchedExt(p) == IF p.magic = "zip" /\ p.ext # ".zip" THEN ".zip" ELSE p.ext

\* the composer takes the container path for entry k: the flag set by the
\* fetch of this run, or a downloaded path that ends in .zip
viaZip(k) == k \in isZipPayload \/ fetchedExt(payload[k]) = ".zip"

\* the loop body of a gated stage once waitIfPaused has returned; the
\* composer starts handleZipPayload ("zip") or copyAndFix ("work")
Body(k) ==
  IF skips(pc, k)
  THEN cursor' = Succ(k + 1) /\ stagePc' = "next"
  ELSE /\ cursor' = k
       /\ stagePc' = IF pc = "postProcess" /\ viaZip(k) THEN "zip" ELSE "work"

\* the ensureDir calls of PostProcessService.run resolve: its loop starts
PostProcessDirsDone ==
  /\ pc = "postProcessDirs" /\ Quiet
  /\ pc' = "postProcess" /\ cursor' = Succ(1) /\ stagePc' = "next"
  /\ UNCHANGED <<gateVars, callVars, probe, zipVars, fetchVars, storeVars>>
  /\ UNCHANGED <<isRunning, request, entries, inRun, stateSnapshot, filesAtStart,
                 lastResult, rejected, runs, loaded, dedupVars>>

\* the next iteration of a gated stage: waitIfPaused, then the body
StageIter ==
  /\ pc \in gatedStages /\ stagePc = "next" /\ cursor <= NumItems
  /\ released = {}
  /\ waitIfPaused(MainTask)
  /\ IF paused THEN stagePc' = "gate" /\ UNCHANGED cursor ELSE Body(cursor)
  /\ UNCHANGED <<paused, listeners, released, delivered, notified, queuePaused, observing>>
  /\ UNCHANGED <<callVars, probe, zipVars, fetchVars, storeVars>>
  /\ UNCHANGED <<isRunning, pc, request, entries, inRun, stateSnapshot, filesAtStart,
                 lastResult, rejected, runs, loaded, dedupVars>>

\* the stage loop released from waitIfPaused continues with the body
ContinueMain ==
  /\ MainTask \in released
  /\ released' = released \ {MainTask}
  /\ IF pc \in gatedStages /\ stagePc = "gate"
     THEN Body(cursor)
     ELSE UNCHANGED <<cursor, stagePc>>
  /\ UNCHANGED <<paused, waiters, listeners, suspended, delivered, notified, queuePaused, observing>>
  /\ UNCHANGED <<callVars, probe, zipVars, fetchVars, storeVars>>
  /\ UNCHANGED <<isRunning, pc, request, entries, inRun, stateSnapshot, filesAtStart,
                 lastResult, rejected, runs, loaded, dedupVars>>

\* recordFailure, and the catch blocks of MetadataService.run and
\* VerificationService.run
recordFailure(k, stage) ==
  [entries EXCEPT ![k].downloadStatus = "failed",
                  ![k].failureStage = stage,
                  ![k].errors = @ + 1]

\* copyAndFix / handleZipPayload settles for the entry at the cursor; it can
\* resolve only if the downloaded file exists
PostProcessItemDone(ok) ==
  /\ pc = "postProcess" /\ stagePc = "work" /\ Quiet
  /\ ok => cursor \in dlFile
  /\ IF ok
     THEN /\ finalFile' = finalFile \cup {cursor}
          /\ entries' = [entries EXCEPT ![cursor].finalPath = "final",
                                        ![cursor].downloadStatus = "processed"]
     ELSE /\ entries' = recordFailure(cursor, "post-process")
          /\ UNCHANGED finalFile
  /\ cursor' = Succ(cursor + 1) /\ stagePc' = "next"
  /\ UNCHANGED <<gateVars, callVars, probe, zipVars, fetchVars, store, disk, dlFile>>
  /\ UNCHANGED <<isRunning, pc, request, inRun, stateSnapshot, filesAtStart,
                 lastResult, rejected, runs, loaded, dedupVars>>

\* handleZipPayload: fs.mkdtemp has made the extraction directory (or has
\* failed) and zip.extract / zip.close have settled.  A rejection here is
\* thrown from the first try block, which has no cleanup
ZipExtractDone(made, ok) ==
  /\ pc = "postProcess" /\ stagePc = "zip" /\ Quiet
  /\ ok => (made /\ cursor \in dlFile /\ payload[cursor].magic = "zip")
  /\ extractDirs' = IF made THEN extractDirs \cup {cursor} ELSE extractDirs
  /\ IF ok
     THEN stagePc' = "compose" /\ UNCHANGED <<cursor, entries>>
     ELSE /\ entries' = recordFailure(cursor, "post-process")
          /\ cursor' = Succ(cursor + 1) /\ stagePc' = "next"
  /\ UNCHANGED <<gateVars, callVars, probe, payload, isZipPayload, fetchVars, storeVars>>
  /\ UNCHANGED <<isRunning, pc, request, inRun, stateSnapshot, filesAtStart,
                 lastResult, rejected, runs, loaded, dedupVars>>

\* handleZipPayload: listing, base selection and compositing have settled
\* (after a failure captureZipFailure has run, it never rejects):
\* safeRemoveDir is pending
ZipComposeDone(ok) ==
  /\ pc = "postProcess" /\ stagePc = "compose" /\ Quiet
  /\ IF ok
     THEN /\ finalFile' = finalFile \cup {cursor}
          /\ entries' = [entries EXCEPT ![cursor].finalPath = "final"]
          /\ stagePc' = "remove"
     ELSE /\ stagePc' = "removeFailed"
          /\ UNCHANGED <<finalFile, entries>>
  /\ UNCHANGED <<gateVars, callVars, probe, zipVars, fetchVars, store, disk, dlFile>>
  /\ UNCHANGED <<isRunning, pc, request, inRun, stateSnapshot, filesAtStart, cursor,
                 lastResult, rejected, runs, loaded, dedupVars>>

\* safeRemoveDir returns: fs.rm has removed the directory, or has failed
\* three times and the failure is only logged; handleZipPayload then
\* returns or rethrows the compositing error
SafeRemoveDirDone(removed) ==
  /\ pc = "postProcess" /\ stagePc \in {"remove", "removeFailed"} /\ Quiet
  /\ extractDirs' = IF removed THEN extractDirs \ {cursor} ELSE extractDirs
  /\ entries' = IF stagePc = "remove"
                THEN [entries EXCEPT ![cursor].downloadStatus = "processed"]
                ELSE recordFailure(cursor, "post-process")
  /\ cursor' = Succ(cursor + 1) /\ stagePc' = "next"
  /\ UNCHANGED <<gateVars, callVars, probe, payload, isZipPayload, fetchVars, storeVars>>
  /\ UNCHANGED <<isRunning, pc, request, inRun, stateSnapshot, filesAtStart,
                 lastResult, rejected, runs, loaded, dedupVars>>

\* the loop of PostProcessService.run is over: the loop of
\* MetadataService.run starts
PostProcessEnd ==
  /\ pc = "postProcess" /\ stagePc = "next" /\ cursor > NumItems
  /\ pc' = "metadata" /\ cursor' = Succ(1)
  /\ UNCHANGED <<gateVars, callVars, probe, zipVars, fetchVars, storeVars>>
  /\ UNCHANGED <<isRunning, request, entries, inRun, stateSnapshot, filesAtStart,
                 stagePc, lastResult, rejected, runs, loaded, dedupVars>>

\* writeMetadata / alignFileTimestamp settles for the entry at the cursor
MetadataItemDone(ok) ==
  /\ pc = "metadata" /\ stagePc = "work" /\ Quiet
  /\ entries' = IF ok THEN [entries EXCEPT ![cursor].downloadStatus = "metadata"]
                ELSE recordFailure(cursor, "metadata")
  /\ cursor' = Succ(cursor + 1) /\ stagePc' = "next"
  /\ UNCHANGED <<gateVars, callVars, probe, zipVars, fetchVars, storeVars>>
  /\ UNCHANGED <<isRunning, pc, request, inRun, stateSnapshot, filesAtStart,
                 lastResult, rejected, runs, loaded, dedupVars>>

\* the metadata loop is over: a DedupService is constructed and the
\* ensureDir call of its run() is pending
MetadataEnd(strat) ==
  /\ pc = "metadata" /\ stagePc = "next" /\ cursor > NumItems
  /\ pc' = "dedupDirs" /\ stagePc' = "none"
  /\ strategy' = strat
  /\ UNCHANGED <<gateVars, callVars, probe, zipVars, fetchVars, storeVars>>
  /\ UNCHANGED <<isRunning, request, entries, inRun, stateSnapshot, filesAtStart,
                 cursor, lastResult, rejected, runs, loaded, urlMap, hashMap>>

DedupDirsDone ==
  /\ pc = "dedupDirs" /\ Quiet
  /\ pc' = "dedup" /\ cursor' = Succ(1) /\ stagePc' = "next"
  /\ urlMap' = {} /\ hashMap' = {}
  /\ UNCHANGED <<gateVars, callVars, probe, zipVars, fetchVars, storeVars>>
  /\ UNCHANGED <<isRunning, request, entries, inRun, stateSnapshot, filesAtStart,
                 lastResult, rejected, runs, loaded, strategy>>

\* handleDuplicate: the status is set, then nothing more (none) or a file
\* operation is pending (delete, move)
handleDuplicate(es, k) ==
  /\ entries' = [es EXCEPT ![k].downloadStatus = "deduped"]
  /\ IF strategy = "none"
     THEN cursor' = Succ(k + 1) /\ stagePc' = "next"
     ELSE cursor' = k /\ stagePc' = "dupFile"

\* the next iteration of DedupService.run (no waitIfPaused).  The URL of the
\* entry is that of an earlier recorded entry m, or a new one (m = k)
DedupIter(m) ==
  /\ pc = "dedup" /\ stagePc = "next" /\ cursor <= NumItems
  /\ released = {}
  /\ m \in urlMap \cup {cursor}
  /\ IF skips("dedup", cursor)
     THEN /\ m = cursor
          /\ cursor' = Succ(cursor + 1)
          /\ UNCHANGED <<stagePc, entries, urlMap>>
     ELSE IF m # cursor
          THEN handleDuplicate(entries, cursor) /\ UNCHANGED urlMap
          ELSE /\ urlMap' = urlMap \cup {cursor}
               /\ stagePc' = "hash"
               /\ UNCHANGED <<cursor, entries>>
  /\ UNCHANGED <<gateVars, callVars, probe, zipVars, fetchVars, storeVars>>
  /\ UNCHANGED <<isRunning, pc, request, inRun, stateSnapshot, filesAtStart,
                 lastResult, rejected, runs, loaded, strategy, hashMap>>

\* streamHash resolves with the hash first recorded for entry m, or with a
\* new one (m = k)
DedupHashDone(m) ==
  /\ pc = "dedup" /\ stagePc = "hash" /\ Quiet
  /\ m \in hashMap \cup {cursor}
  /\ IF m # cursor
     THEN /\ handleDuplicate([entries EXCEPT ![cursor].contentHash = m], cursor)
          /\ UNCHANGED hashMap
     ELSE /\ hashMap' = hashMap \cup {cursor}
          /\ entries' = [entries EXCEPT
               ![cursor].contentHash = m,
               ![cursor].downloadStatus = IF @ = "metadata" THEN "deduped" ELSE @]
          /\ cursor' = Succ(cursor + 1) /\ stagePc' = "next"
  /\ UNCHANGED <<gateVars, callVars, probe, zipVars, fetchVars, storeVars>>
  /\ UNCHANGED <<isRunning, pc, request, inRun, stateSnapshot, filesAtStart,
                 lastResult, rejected, runs, loaded, strategy, urlMap>>

\* fs.remove / fs.move of handleDuplicate resolves
DedupFileDone ==
  /\ pc = "dedup" /\ stagePc = "dupFile" /\ Quiet
  /\ finalFile' = finalFile \ {cursor}
  /\ entries' = IF strategy = "move"
                THEN [entries EXCEPT ![cursor].finalPath = "duplicates"]
                ELSE entries
  /\ cursor' = Succ(cursor + 1) /\ stagePc' = "next"
  /\ UNCHANGED <<gateVars, callVars, probe, zipVars, fetchVars, store, disk, dlFile>>
  /\ UNCHANGED <<isRunning, pc, request, inRun, stateSnapshot, filesAtStart,
                 lastResult, rejected, runs, loaded, dedupVars>>

\* streamHash, fs.remove or fs.move rejects for the entry at the cursor:
\* DedupService.run has no catch, the exception leaves run() through finally
DedupItemFail ==
  /\ pc = "dedup" /\ stagePc \in {"hash", "dupFile"} /\ Quiet
  /\ Finally("error", "dedup", "item")
  /\ UNCHANGED <<callVars, probe, zipVars, fetchVars, storeVars>>
  /\ UNCHANGED <<request, entries, inRun, stateSnapshot, filesAtStart, cursor,
                 rejected, runs, loaded, dedupVars>>

\* the dedup loop is over: the loop of VerificationService.run starts
DedupEnd ==
  /\ pc = "dedup" /\ stagePc = "next" /\ cursor > NumItems
  /\ pc' = "verify" /\ cursor' = Succ(1)
  /\ UNCHANGED <<gateVars, callVars, probe, zipVars, fetchVars, storeVars>>
  /\ UNCHANGED <<isRunning, request, entries, inRun, stateSnapshot, filesAtStart,
                 stagePc, lastResult, rejected, runs, loaded, dedupVars>>

\* populateFinalPathsFromDisk resolves (verifyOnly): the verification loop
\* starts
PopulateDone ==
  /\ pc = "populate" /\ Quiet
  /\ entries' = [i \in Items |->
       IF i \in inRun /\ i \in finalFile
       THEN [entries[i] EXCEPT !.finalPath = "final", !.downloadStatus = "processed"]
       ELSE entries[i]]
  /\ pc' = "verify" /\ cursor' = Succ(1) /\ stagePc' = "next"
  /\ UNCHANGED <<gateVars, callVars, probe, zipVars, fetchVars, storeVars>>
  /\ UNCHANGED <<isRunning, request, inRun, stateSnapshot, filesAtStart,
                 lastResult, rejected, runs, loaded, dedupVars>>

\* ensureFileIntegrity settles for the entry at the cursor; it can resolve
\* only if the file exists
VerifyItemSettle(ok) ==
  /\ pc = "verify" /\ stagePc = "work" /\ Quiet
  /\ ok => finalExists(cursor)
  /\ entries' = IF ok
                THEN [entries EXCEPT ![cursor].contentHash = IF @ = 0 THEN cursor ELSE @]
                ELSE recordFailure(cursor, "verification")
  /\ cursor' = Succ(cursor + 1) /\ stagePc' = "next"
  /\ UNCHANGED <<gateVars, callVars, fetchVars, storeVars, zipVars>>
  /\ UNCHANGED <<isRunning, pc, request, inRun, stateSnapshot, filesAtStart,
                 lastResult, rejected, runs, loaded, dedupVars>>

VerifyItemDone(ok) == VerifyItemSettle(ok) /\ UNCHANGED <<probe, zipVars>>

\* ensureFileIntegrity for entry k, given what it finds out about the file:
\* "ok" or the error it throws
ensureFileIntegrity(k, p) ==
  IF ~finalExists(k) THEN "missing"
  ELSE IF ~p.nonEmpty THEN "empty"
  ELSE IF p.mediaType = "video" /\ p.magic = "jpg" THEN "expected video"
  ELSE IF p.mediaType = "image" /\ p.magic \in {"mp4", "mov"} THEN "expected image"
  ELSE IF ~p.toolOk THEN "tool"
  ELSE IF entries[k].contentHash # 0 /\ ~p.hashOk THEN "hash mismatch"
  ELSE "ok"

\* the same step with the findings of `probe` deciding the outcome; the
\* findings for the next entry are then open
VerifyChecked ==
  /\ VerifyItemSettle(ensureFileIntegrity(cursor, probe) = "ok")
  /\ probe' \in Probes

\* the verification loop is over: buildSummary, reportService.create pending
VerifyEnd ==
  /\ pc = "verify" /\ stagePc = "next" /\ cursor > NumItems
  /\ pc' = "report" /\ stagePc' = "none"
  /\ UNCHANGED <<gateVars, callVars, probe, zipVars, fetchVars, storeVars>>
  /\ UNCHANGED <<isRunning, request, entries, inRun, stateSnapshot, filesAtStart,
                 cursor, lastResult, rejected, runs, loaded, dedupVars>>

\* ------------------------------------------------------ the end of a run

\* reportService.create resolves: stateStore.save() pending
ReportDone ==
  /\ pc = "report" /\ Quiet
  /\ pc' = "save"
  /\ UNCHANGED <<gateVars, callVars, probe, zipVars, fetchVars, storeVars>>
  /\ UNCHANGED <<isRunning, request, entries, inRun, stateSnapshot, filesAtStart,
                 cursor, stagePc, lastResult, rejected, runs, loaded, dedupVars>>

\* stateStore.save(): ensureDir has resolved and writeJson has opened
\* state.json for writing
SaveBegin ==
  /\ pc = "save" /\ Quiet
  /\ disk' = Torn
  /\ pc' = "saving"
  /\ UNCHANGED <<gateVars, callVars, probe, zipVars, fetchVars, store, dlFile, finalFile>>
  /\ UNCHANGED <<isRunning, request, entries, inRun, stateSnapshot, filesAtStart,
                 cursor, stagePc, lastResult, rejected, runs, loaded, dedupVars>>

\* stateStore.save() resolves: state.json holds the table
SaveDone ==
  /\ pc = "saving" /\ Quiet
  /\ disk' = store
  /\ pc' = "writeReport"
  /\ UNCHANGED <<gateVars, callVars, probe, zipVars, fetchVars, store, dlFile, finalFile>>
  /\ UNCHANGED <<isRunning, request, entries, inRun, stateSnapshot, filesAtStart,
                 cursor, stagePc, lastResult, rejected, runs, loaded, dedupVars>>

\* metadataService.dispose and investigation.writeReport resolve:
\* cleanupOutputArtifacts pending
WriteReportDone ==
  /\ pc = "writeReport" /\ Quiet
  /\ pc' = "cleanup"
  /\ UNCHANGED <<gateVars, callVars, probe, zipVars, fetchVars, storeVars>>
  /\ UNCHANGED <<isRunning, request, entries, inRun, stateSnapshot, filesAtStart,
                 cursor, stagePc, lastResult, rejected, runs, loaded, dedupVars>>

\* cleanupOutputArtifacts settles (it never rejects): downloads/ is removed
\* when cleanupDownloads is set; the summary is returned through finally
CleanupDone(cleanupDownloads) ==
  /\ pc = "cleanup" /\ Quiet
  /\ dlFile' = IF cleanupDownloads THEN {} ELSE dlFile
  /\ Finally("summary", "cleanup", "none")
  /\ UNCHANGED <<callVars, probe, zipVars, fetchVars, store, disk, finalFile>>
  /\ UNCHANGED <<request, entries, inRun, stateSnapshot, filesAtStart, cursor,
                 rejected, runs, loaded, dedupVars>>

\* the process dies while run() is active and the application is started
\* again: what was in memory is gone, the files stay
Crash ==
  /\ isRunning
  /\ paused' = FALSE /\ waiters' = {} /\ listeners' = {}
  /\ suspended' = {} /\ released' = {}
  /\ delivered' = [l \in Listeners |-> {}]
  /\ notified' = [l \in Listeners |-> 0]
  /\ queuePaused' = FALSE
  /\ isRunning' = FALSE /\ pc' = "idle" /\ stagePc' = "none"
  /\ store' = clear
  /\ options' = NoOptions
  /\ jobPc' = [i \in Items |-> "none"]
  /\ attempt' = [i \in Items |-> 0]
  /\ request' = NoRequest
  /\ entries' = [i \in Items |-> PendingEntry]
  /\ inRun' = {}
  /\ stateSnapshot' = [i \in Items |-> NoRecord]
  /\ filesAtStart' = {}
  /\ cursor' = 0
  /\ strategy' = "none" /\ urlMap' = {} /\ hashMap' = {}
  /\ rejected' = FALSE
  /\ lastResult' = [kind |-> "crash", at |-> "none", cause |-> "none"]
  /\ loaded' = clear
  /\ isZipPayload' = {}
  /\ UNCHANGED <<observing, callVars, probe, payload, extractDirs, jobResult, disk,
                 dlFile, finalFile, runs>>

\* ------------------------------------------------- pause / resume requests

\* PipelineRunner.pause
RunnerPause_noGuard ==
  /\ Quiet
  /\ pause
  /\ UNCHANGED <<listeners, observing, callVars, probe, zipVars, fetchVars, storeVars, runVars>>

RunnerPause ==
  /\ Quiet
  /\ isRunning
  /\ pause
  /\ UNCHANGED <<listeners, observing, callVars, probe, zipVars, fetchVars, storeVars, runVars>>

\* PipelineRunner.resume
RunnerResume ==
  /\ Quiet
  /\ resume
  /\ UNCHANGED <<listeners, observing, callVars, probe, zipVars, fetchVars, storeVars, runVars>>

\* ------------------------------------------------------- specifications

Flags == [retryFailedOnly : BOOLEAN, dryRun : BOOLEAN, verifyOnly : BOOLEAN]
Strategies == {"move", "delete", "none"}

\* the steps of the program, of the remote and of the user
RunSteps ==
  \/ \E flags \in Flags : RunAdmit(flags)
  \/ EnsureAppDirectoriesDone
  \/ EnsureAppDirectoriesFail
  \/ \E ok \in BOOLEAN : LoadDone(ok)
  \/ ImportDone
  \/ ParseDone
  \/ StepFail
  \/ \E limit \in 0..MaxRetry, width \in 1..MaxConcurrency, throttle \in BOOLEAN :
       EnsureDirsDone(limit, width, throttle)
  \/ DownloadDirsDone
  \/ \E i \in Items : Dispatch(i)
  \/ \E i \in Items : ContinueJob(i)
  \/ \E i \in Items : CheckDone(i)
  \/ \E i \in Items : FetchOk(i)
  \/ \E i \in Items : FetchFail(i)
  \/ \E i \in Items : BackoffDone(i)
  \/ \E i \in Items : ThrottleDone(i)
  \/ DownloadDone
  \/ PostProcessDirsDone
  \/ StageIter
  \/ ContinueMain
  \/ \E ok \in BOOLEAN : PostProcessItemDone(ok)
  \/ PostProcessEnd
  \/ \E ok \in BOOLEAN : MetadataItemDone(ok)
  \/ \E strat \in Strategies : MetadataEnd(strat)
  \/ DedupDirsDone
  \/ \E m \in Items : DedupIter(m)
  \/ \E m \in Items : DedupHashDone(m)
  \/ DedupFileDone
  \/ DedupItemFail
  \/ DedupEnd
  \/ PopulateDone
  \/ \E ok \in BOOLEAN : VerifyItemDone(ok)
  \/ VerifyEnd
  \/ ReportDone
  \/ SaveBegin
  \/ SaveDone
  \/ WriteReportDone
  \/ \E c \in BOOLEAN : CleanupDone(c)
  \/ RunnerPause
  \/ RunnerResume

Next ==
  \/ RunSteps
  \/ Crash

\* one run() call on the output directory of an earlier session
Spec == Init /\ [][Next]_vars

\* the same, with further run() calls made while the run is active
RejectNext ==
  \/ Next
  \/ RunReject

RejectSpec == Init /\ [][RejectNext]_vars

\* a run left to itself: the process does not die, every pending I/O
\* operation, timer and promise continuation of the run is eventually
\* completed, and a paused gate is eventually resumed
LiveSpec ==
  /\ Init /\ [][RunSteps]_vars
  /\ WF_vars(RunSteps /\ isRunning /\ (fetchVars' # fetchVars \/ runVars' # runVars))
  /\ WF_vars(RunnerResume /\ paused)

\* the gate alone, called in any order by the tasks and the listeners
GateNext ==
  \/ GatePause
  \/ GateResume
  \/ GateReset
  \/ \E t \in Tasks : GateWait(t)
  \/ \E t \in Tasks : GateContinue(t)
  \/ \E l \in Listeners : GateOnChange(l)
  \/ \E l \in Listeners : GateUnsubscribe(l)

GateInit == Plain /\ Start(TRUE, clear, {})

GateSpec == GateInit /\ [][GateNext]_vars

\* entries.filter((e) => e.downloadStatus === status).length over the
\* entries of the run
countStatus_unfiltered(status) ==
  Cardinality({i \in Items : entries[i].downloadStatus = status})
countStatus(status) ==
  Cardinality({i \in inRun : entries[i].downloadStatus = status})

\* the reduce of buildSummary: attempts beyond the first, summed
RECURSIVE reattempts(_)
reattempts(S) ==
  IF S = {} THEN 0
  ELSE LET i == CHOOSE x \in S : TRUE
       IN  (IF entries[i].attempts <= 1 THEN 0 ELSE entries[i].attempts - 1)
             + reattempts(S \ {i})

\* buildSummary(entries, ...) without the times and the report path
buildSummary ==
  [total           |-> Cardinality(inRun),
   downloaded      |-> countStatus("downloaded"),
   processed       |-> countStatus("processed"),
   metadataWritten |-> countStatus("metadata"),
   deduped         |-> countStatus("deduped"),
   failures        |-> countStatus("failed"),
   reattempts      |-> reattempts(inRun)]

\* run() holds or has returned a summary of the entries as they are
summaryComputed ==
  \/ pc \in {"report", "save", "saving", "writeReport", "cleanup"}
  \/ pc = "idle" /\ lastResult.kind = "summary"

\* the fields of a record next to its index, and the records a caller can
\* hand to upsert: any subset of the fields of a record of the program
FieldNames == {"downloadStatus", "downloadedPath", "attempts", "errors", "failureStage"}
Patches ==
  {[k \in D |-> r[k]] : D \in SUBSET FieldNames, r \in {PriorDownloaded, PriorFailed}}

NoCall == [op |-> "none", index |-> 0, fields |-> <<>>]

\* upsert(record) called on the store
StoreUpsert(i, fields) ==
  /\ lastCall.op = "none"
  /\ store' = upsert(store, i, fields)
  /\ lastCall' = [op |-> "upsert", index |-> i, fields |-> fields] /\ tick' = ~tick
  /\ UNCHANGED <<gateVars, fetchVars, runVars, probe, zipVars, disk, dlFile, finalFile>>

\* get(index) called on the store
StoreGet(i) ==
  /\ lastCall.op \in {"none", "upsert"}
  /\ lastCall' = [op |-> "get", index |-> i, fields |-> <<>>] /\ tick' = ~tick
  /\ UNCHANGED <<gateVars, fetchVars, runVars, probe, zipVars, storeVars>>

\* the caller assigns fields of the value get() returned: the value is the
\* object held in the table
StoreMutateReturned(fields) ==
  /\ lastCall.op = "get"
  /\ get(store, lastCall.index) # NoRecord
  /\ store' = [store EXCEPT ![lastCall.index] = fields @@ @]
  /\ lastCall' = [op |-> "mutate", index |-> lastCall.index, fields |-> fields]
  /\ tick' = ~tick
  /\ UNCHANGED <<gateVars, fetchVars, runVars, probe, zipVars, disk, dlFile, finalFile>>

\* a StateStore holding a table of an earlier session
StoreInit ==
  /\ paused = FALSE /\ waiters = {} /\ listeners = {}
  /\ suspended = {} /\ released = {}
  /\ delivered = [l \in Listeners |-> {}]
  /\ notified = [l \in Listeners |-> 0]
  /\ observing = FALSE
  /\ lastCall = NoCall /\ tick = FALSE
  /\ queuePaused = FALSE /\ options = NoOptions
  /\ jobPc = [i \in Items |-> "none"]
  /\ attempt = [i \in Items |-> 0]
  /\ jobResult = [i \in Items |-> "none"]
  /\ store \in PriorTables
  /\ disk = store
  /\ dlFile = {} /\ finalFile = {}
  /\ isRunning = FALSE /\ pc = "idle" /\ request = NoRequest
  /\ entries = [i \in Items |-> PendingEntry]
  /\ inRun = {}
  /\ stateSnapshot = clear
  /\ filesAtStart = {}
  /\ cursor = 0 /\ stagePc = "none"
  /\ lastResult = NoResult /\ rejected = FALSE /\ runs = 0
  /\ loaded = store
  /\ strategy = "none" /\ urlMap = {} /\ hashMap = {}
  /\ probe = NoProbe
  /\ Plain /\ isZipPayload = {} /\ extractDirs = {}

\* the StateStore alone: one upsert, then get and assignments to what get
\* returned
StoreNext ==
  \/ \E i \in Items, fields \in Patches : StoreUpsert(i, fields)
  \/ \E i \in Items : StoreGet(i)
  \/ \E fields \in Patches : StoreMutateReturned(fields)

StoreSpec == StoreInit /\ [][StoreNext]_vars

\* the fetch stage with every job in its first attempt, under a positive
\* finite attemptTimeoutMs
AttemptInit ==
  /\ paused = FALSE /\ waiters = {} /\ listeners = {"queue"}
  /\ suspended = {} /\ released = {}
  /\ delivered = [l \in Listeners |-> {}]
  /\ notified = [l \in Listeners |-> 0]
  /\ observing = FALSE
  /\ lastCall = "none" /\ tick = FALSE
  /\ queuePaused = FALSE
  /\ options \in [retryLimit : 1..MaxRetry, concurrency : {MaxConcurrency},
                  throttle : BOOLEAN]
  /\ jobPc = [i \in Items |-> "fetching"]
  /\ attempt = [i \in Items |-> 1]
  /\ jobResult = [i \in Items |-> "none"]
  /\ store = clear /\ disk = clear
  /\ dlFile = {} /\ finalFile = {}
  /\ isRunning = TRUE /\ pc = "download" /\ request = NoRequest
  /\ entries = [i \in Items |-> PendingEntry]
  /\ inRun = Items
  /\ stateSnapshot = clear
  /\ filesAtStart = {}
  /\ cursor = 0 /\ stagePc = "none"
  /\ lastResult = NoResult /\ rejected = FALSE /\ runs = 1
  /\ loaded = clear
  /\ strategy = "none" /\ urlMap = {} /\ hashMap = {}
  /\ probe = NoProbe
  /\ Plain /\ isZipPayload = {} /\ extractDirs = {}

\* the attempts of the fetch stage, phase by phase
AttemptNext ==
  \/ \E i \in Items : AttemptBegin(i)
  \/ \E i \in Items : RemoteAnswers(i)
  \/ \E i \in Items : RemoteFails(i)
  \/ \E i \in Items : BodyDone(i)
  \/ \E i \in Items : TimerFires(i)
  \/ \E i \in Items : BackoffDone(i)
  \/ \E i \in Items : ThrottleDone(i)
  \/ DownloadDone

\* the steps of the program and its timers are taken when they can be; the
\* remote need not ever answer
AttemptSpec ==
  /\ AttemptInit /\ [][AttemptNext]_vars
  /\ \A i \in Items :
       /\ WF_vars(AttemptBegin(i)) /\ WF_vars(TimerFires(i))
       /\ WF_vars(BackoffDone(i)) /\ WF_vars(ThrottleDone(i))
  /\ WF_vars(DownloadDone)

\* an entry as the verification stage can receive it: composed, its metadata
\* written and hashed by the deduplication stage, or failed at metadata
VerifiableEntries(i) ==
  {[PendingEntry EXCEPT !.downloadStatus = "deduped", !.downloadedPath = TRUE,
                        !.finalPath = "final", !.attempts = 1, !.contentHash = i],
   [PendingEntry EXCEPT !.downloadStatus = "failed", !.downloadedPath = TRUE,
                        !.finalPath = "final", !.attempts = 1, !.errors = 1,
                        !.failureStage = "metadata"]}

\* the verification stage of a run is about to start
VerifyInit ==
  /\ paused = FALSE /\ waiters = {} /\ listeners = {}
  /\ suspended = {} /\ released = {}
  /\ delivered = [l \in Listeners |-> {}]
  /\ notified = [l \in Listeners |-> 0]
  /\ observing = FALSE
  /\ lastCall = "none" /\ tick = FALSE
  /\ queuePaused = FALSE /\ options = NoOptions
  /\ jobPc = [i \in Items |-> "none"]
  /\ attempt = [i \in Items |-> 0]
  /\ jobResult = [i \in Items |-> "downloaded"]
  /\ store = [i \in Items |-> [NoRecord EXCEPT !.downloadStatus = "downloaded",
                                               !.downloadedPath = TRUE,
                                               !.attempts = 1]]
  /\ disk = clear
  /\ dlFile = Items
  /\ finalFile \in SUBSET Items
  /\ isRunning = TRUE /\ pc = "verify" /\ request = NoRequest
  /\ entries \in [Items -> UNION {VerifiableEntries(i) : i \in Items}]
  /\ \A i \in Items : entries[i] \in VerifiableEntries(i)
  /\ inRun = Items
  /\ stateSnapshot = clear
  /\ filesAtStart = {}
  /\ cursor = Succ(1) /\ stagePc = "next"
  /\ lastResult = NoResult /\ rejected = FALSE /\ runs = 1
  /\ loaded = clear
  /\ strategy = "delete" /\ urlMap = {} /\ hashMap = {}
  /\ probe \in Probes
  /\ Plain /\ isZipPayload = {} /\ extractDirs = {}

\* the verification stage alone, with the findings about each file drawn
\* from Probes
VerifyNext ==
  \/ StageIter
  \/ VerifyChecked
  \/ VerifyEnd

VerifySpec == VerifyInit /\ [][VerifyNext]_vars

\* run() called twice in succession on a fresh output directory, each call
\* a full run left to complete: no pause, no crash, no failing directory step
TwiceNext ==
  \/ Admit(NoRequest, TwiceRuns)
  \/ EnsureAppDirectoriesDone
  \/ LoadDone(TRUE)
  \/ ImportDone
  \/ ParseDone
  \/ \E limit \in 1..MaxRetry, width \in 1..MaxConcurrency :
       EnsureDirsDone(limit, width, FALSE)
  \/ DownloadDirsDone
  \/ \E i \in Items : Dispatch(i)
  \/ \E i \in Items : CheckDone(i)
  \/ \E i \in Items : FetchOk(i)
  \/ \E i \in Items : FetchFail(i)
  \/ \E i \in Items : BackoffDone(i)
  \/ DownloadDone
  \/ PostProcessDirsDone
  \/ StageIter
  \/ \E ok \in BOOLEAN : PostProcessItemDone(ok)
  \/ PostProcessEnd
  \/ \E ok \in BOOLEAN : MetadataItemDone(ok)
  \/ \E strat \in Strategies : MetadataEnd(strat)
  \/ DedupDirsDone
  \/ \E m \in Items : DedupIter(m)
  \/ \E m \in Items : DedupHashDone(m)
  \/ DedupFileDone
  \/ DedupItemFail
  \/ DedupEnd
  \/ \E ok \in BOOLEAN : VerifyItemDone(ok)
  \/ VerifyEnd
  \/ ReportDone
  \/ SaveBegin
  \/ SaveDone
  \/ WriteReportDone
  \/ \E c \in BOOLEAN : CleanupDone(c)

TwiceInit == Plain /\ Start(FALSE, clear, {})

TwiceSpec == TwiceInit /\ [][TwiceNext]_vars

\* the same two runs with archives among the payloads: for each item the
\* remote delivers an archive or plain media, under a name with or without
\* the .zip extension
ZipInit ==
  /\ payload \in [Items -> Payloads]
  /\ Start(FALSE, clear, {})

\* one attempt per item, duplicates left in place
ZipNext ==
  \/ Admit(NoRequest, TwiceRuns)
  \/ EnsureAppDirectoriesDone
  \/ LoadDone(TRUE)
  \/ ImportDone
  \/ ParseDone
  \/ \E width \in 1..MaxConcurrency : EnsureDirsDone(1, width, FALSE)
  \/ DownloadDirsDone
  \/ \E i \in Items : Dispatch(i)
  \/ \E i \in Items : CheckDone(i)
  \/ \E i \in Items : FetchOk(i)
  \/ \E i \in Items : FetchFail(i)
  \/ DownloadDone
  \/ PostProcessDirsDone
  \/ StageIter
  \/ \E ok \in BOOLEAN : PostProcessItemDone(ok)
  \/ PostProcessEnd
  \/ \E ok \in BOOLEAN : MetadataItemDone(ok)
  \/ MetadataEnd("none")
  \/ DedupDirsDone
  \/ \E m \in Items : DedupIter(m)
  \/ \E m \in Items : DedupHashDone(m)
  \/ DedupItemFail
  \/ DedupEnd
  \/ \E ok \in BOOLEAN : VerifyItemDone(ok)
  \/ VerifyEnd
  \/ ReportDone
  \/ SaveBegin
  \/ SaveDone
  \/ WriteReportDone
  \/ \E c \in BOOLEAN : CleanupDone(c)
  \/ \E made \in BOOLEAN, ok \in BOOLEAN : ZipExtractDone(made, ok)
  \/ \E ok \in BOOLEAN : ZipComposeDone(ok)
  \/ \E removed \in BOOLEAN : SafeRemoveDirDone(removed)

ZipSpec == ZipInit /\ [][ZipNext]_vars

\* the fetch stage of one full run on a fresh output directory with retry
\* limits up to BackoffRetry, left to complete: no pause, no crash
BackoffNext ==
  \/ Admit(NoRequest, MaxRuns)
  \/ EnsureAppDirectoriesDone
  \/ LoadDone(TRUE)
  \/ ImportDone
  \/ ParseDone
  \/ \E limit \in 1..BackoffRetry, width \in 1..MaxConcurrency :
       EnsureDirsDone(limit, width, FALSE)
  \/ DownloadDirsDone
  \/ \E i \in Items : Dispatch(i)
  \/ \E i \in Items : FetchOk(i)
  \/ \E i \in Items : FetchFail(i)
  \/ \E i \in Items : BackoffDone(i)
  \/ DownloadDone

BackoffInit == Plain /\ Start(FALSE, clear, {})

BackoffSpec == BackoffInit /\ [][BackoffNext]_vars

\* ------------------------------------------------------------- claims

\* C1: a run() call made while a run is active is rejected and changes
\* neither the running flag, nor the pause gate (flag, waiters, suspended and
\* released tasks, the queue's pause state), nor the position, the items and
\* the fetch jobs of the active run.
C1_SingleFlight ==
  [][(isRunning /\ ~rejected /\ rejected') =>
       /\ isRunning'
       /\ UNCHANGED <<paused, waiters, listeners, suspended, released, queuePaused>>
       /\ UNCHANGED <<pc, stagePc, cursor, request, inRun, entries>>
       /\ UNCHANGED <<options, jobPc, attempt, jobResult, store, disk>>]_vars

\* C1 witness: a run() call has been rejected while the active run is in its
\* fetch stage with the gate paused and a fetch job suspended in the gate.
C1_Witness ==
  /\ rejected /\ isRunning /\ paused
  /\ pc = "download"
  /\ suspended # {}

\* C2: whenever an admitted run() has terminated, with a summary or with an
\* exception, the running flag is false and the gate is not paused.
C2_GuaranteedCleanup ==
  (pc = "idle" /\ lastResult.kind \in {"summary", "error"}) =>
    (~isRunning /\ ~paused)

\* the persisted record of item i, as loaded at the start of the run, has
\* status downloaded and the file it names was in downloads/ at that time
persistedHit(i) ==
  /\ loaded[i].downloadStatus = "downloaded"
  /\ loaded[i].downloadedPath
  /\ i \in filesAtStart

\* C3: in the fetch stage, an item whose persisted record has status
\* downloaded and whose recorded file exists gets no fetch attempt, and its
\* job ends with status downloaded and the persisted path and attempt count;
\* a job ends as a resume skip only for such an item.
C3_ResumeCorrectness ==
  pc = "download" =>
    \A i \in inRun :
      /\ persistedHit(i) =>
           /\ attempt[i] = 0
           /\ jobPc[i] \notin {"fetching", "backoff", "gate2"}
           /\ i \in dlFile
      /\ (persistedHit(i) /\ jobPc[i] = "done") =>
           /\ jobResult[i] = "skipped"
           /\ entries[i].downloadStatus = "downloaded"
           /\ entries[i].downloadedPath = loaded[i].downloadedPath
           /\ entries[i].attempts = loaded[i].attempts
      /\ jobResult[i] = "skipped" => persistedHit(i)

\* C3 witness: in one fetch stage, an item was skipped as already
\* downloaded while another item, whose recorded file is gone, was fetched
\* again.
C3_Witness ==
  /\ pc = "download"
  /\ \E i \in inRun, j \in inRun :
       /\ jobResult[i] = "skipped" /\ persistedHit(i)
       /\ entries[i].attempts = MaxRetry
       /\ loaded[j].downloadStatus = "downloaded" /\ ~persistedHit(j)
       /\ jobResult[j] = "downloaded"

\* the positions of run() after the retry filter
afterFilter == {"ensureDirs", "downloadDirs", "download", "postProcessDirs",
                "postProcess", "metadata", "dedupDirs", "dedup", "populate",
                "verify", "report", "save", "writeReport", "cleanup"}

\* the entry of item i as it was when the retry filter ran
restored(i) ==
  restoreEntriesFromState([k \in Items |-> PendingEntry], stateSnapshot)[i]

\* C4: in retry-failed-only mode the items of the run are exactly those
\* whose persisted record has status failed and there is at least one; every
\* other item gets no fetch job and no attempt, is at no stage's cursor, and
\* keeps its entry, its record in the store and its record in state.json.
C4_RetryFailedOnly ==
  (request.retryFailedOnly /\ pc \in afterFilter) =>
    /\ inRun = failedIndexes(stateSnapshot)
    /\ inRun # {}
    /\ stagePc \in {"gate", "work", "hash", "dupFile"} => cursor \in inRun
    /\ \A i \in Items \ inRun :
         /\ jobPc[i] = "none" /\ attempt[i] = 0 /\ jobResult[i] = "none"
         /\ entries[i] = restored(i)
         /\ store[i] = stateSnapshot[i]
         /\ disk[i] = stateSnapshot[i]

\* C4 witness: a retry-failed-only run that was given one failed item out of
\* two has fetched it and is composing it, after state.json was loaded with a
\* downloaded record for the other item.
C4_Witness ==
  /\ request.retryFailedOnly
  /\ pc = "postProcess" /\ stagePc = "work"
  /\ \E i \in Items :
       /\ inRun = {i}
       /\ cursor = i
       /\ jobResult[i] = "downloaded"
       /\ \E j \in Items \ {i} : stateSnapshot[j].downloadStatus = "downloaded"

\* C5: when a run has been interrupted by a crash or by an exception, every
\* item whose fetch completed in that run has a record with status downloaded
\* and its path in state.json.
C5_CrashSafePersistence ==
  (pc = "idle" /\ lastResult.kind \in {"crash", "error"}) =>
    \A i \in Items :
      jobResult[i] = "downloaded" =>
        (disk[i].downloadStatus = "downloaded" /\ disk[i].downloadedPath)

\* the job of item i is over and the item was neither skipped nor fetched,
\* under a retry limit of at least one: every attempt for it has failed
allAttemptsFailed(i) ==
  /\ options.retryLimit >= 1
  /\ jobPc[i] = "done"
  /\ jobResult[i] \notin {"skipped", "downloaded"}

\* C6: in the fetch stage no item gets more than retryLimit attempts; an item
\* whose attempts have all failed has status failed, failureStage download,
\* attempts = retryLimit and a failed record in the store; a fetched item has
\* 1 <= attempts <= retryLimit; and a job that is over begins no attempt.
C6_RetryExhaustion ==
  /\ [](pc = "download" =>
         \A i \in inRun :
           /\ attempt[i] <= options.retryLimit
           /\ allAttemptsFailed(i) =>
                /\ jobResult[i] = "failed"
                /\ attempt[i] = options.retryLimit
                /\ entries[i].downloadStatus = "failed"
                /\ entries[i].failureStage = "download"
                /\ entries[i].attempts = options.retryLimit
                /\ store[i].downloadStatus = "failed"
                /\ store[i].attempts = options.retryLimit
           /\ jobResult[i] = "downloaded" =>
                /\ entries[i].attempts = attempt[i]
                /\ 1 <= entries[i].attempts
                /\ entries[i].attempts <= options.retryLimit)
  /\ [][\A i \in Items :
          (pc = "download" /\ jobPc[i] = "done") =>
            (jobPc'[i] \in {"done", "none"} /\ attempt'[i] \in {attempt[i], 0})]_vars

\* C6 witness: under the largest retry limit an item has failed on every
\* attempt while another item was fetched on a later attempt.
C6_Witness ==
  /\ pc = "download"
  /\ options.retryLimit = MaxRetry
  /\ \E i \in inRun, j \in inRun :
       /\ allAttemptsFailed(i) /\ jobResult[i] = "failed"
       /\ entries[i].attempts = MaxRetry
       /\ jobResult[j] = "downloaded" /\ entries[j].attempts = MaxRetry

\* C7: a run never ends with an exception caused by the failure of one
\* item's step in a stage.
C7_FailureIsolation ==
  lastResult.kind = "error" => lastResult.cause # "item"

\* C8: in a step taken while the gate is paused, no queued fetch job is
\* dispatched, no fetch attempt begins and no stage begins a step for an item.
C8_PauseFidelity ==
  [][(paused /\ paused') =>
       /\ \A i \in Items :
            /\ jobPc[i] = "queued" => jobPc'[i] = "queued"
            /\ jobPc'[i] = "fetching" => jobPc[i] = "fetching"
       /\ stagePc' \in {"work", "hash", "dupFile"} =>
            (stagePc' = stagePc /\ cursor' = cursor)]_vars

\* C9: whenever the gate is in the resumed state, no task is suspended in
\* waitIfPaused.
C9_NoneSuspendedWhenResumed ==
  ~paused => suspended = {}

\* C10: pause() on a paused gate and resume() on a resumed gate change
\* nothing and call no listener; an effective pause() or resume() sets the
\* flag and calls each subscribed listener, and no other, once with the new
\* value.
C10_Idempotence ==
  [][/\ (lastCall' = "pause" /\ tick' # tick) =>
          IF paused
          THEN /\ UNCHANGED <<paused, waiters, listeners, suspended, released,
                             delivered, queuePaused>>
               /\ \A l \in Listeners : notified'[l] = 0
          ELSE /\ paused'
               /\ \A l \in Listeners :
                    /\ notified'[l] = IF l \in listeners THEN 1 ELSE 0
                    /\ delivered'[l] = IF l \in listeners THEN {TRUE} ELSE delivered[l]
     /\ (lastCall' = "resume" /\ tick' # tick) =>
          IF ~paused
          THEN /\ UNCHANGED <<paused, waiters, listeners, suspended, released,
                             delivered, queuePaused>>
               /\ \A l \in Listeners : notified'[l] = 0
          ELSE /\ ~paused'
               /\ \A l \in Listeners :
                    /\ notified'[l] = IF l \in listeners THEN 1 ELSE 0
                    /\ delivered'[l] = IF l \in listeners THEN {FALSE} ELSE delivered[l]]_vars

\* C10 witness: pause() was just called on a gate that was already paused
\* and has two listeners: both hold the value of the effective pause() and
\* neither was called by this one.
C10_Witness ==
  /\ lastCall = "pause" /\ paused
  /\ listeners = Listeners
  /\ \A l \in Listeners : notified[l] = 0 /\ delivered[l] = {TRUE}

\* the loop of DedupService.run is over
dedupOver == pc = "dedup" /\ stagePc = "next" /\ cursor > NumItems

\* the duplicate policy has been applied to the file of item k
policyApplied(k) ==
  CASE strategy = "move" -> entries[k].finalPath = "duplicates" /\ k \notin finalFile
    [] strategy = "delete" -> k \notin finalFile
    [] OTHER -> TRUE

\* the file of item k is where composition left it
fileUntouched(k) == entries[k].finalPath = "final" /\ k \in finalFile

\* C11: at the end of the deduplication stage, of two items whose finalized
\* files hashed to the same content the first in item order has a status
\* other than deduped and an untouched file, and the later one has status
\* deduped and the policy applied.
C11_DedupLaw ==
  dedupOver =>
    \A i \in inRun, j \in inRun :
      (i < j /\ entries[i].contentHash # 0
             /\ entries[i].contentHash = entries[j].contentHash) =>
        /\ entries[i].downloadStatus # "deduped"
        /\ fileUntouched(i)
        /\ entries[j].downloadStatus = "deduped"
        /\ policyApplied(j)

\* C12: the step of the deduplication stage that finds an item's hash to be
\* new (the item is not a duplicate) leaves the item's status as it was.
C12_DedupFrame ==
  [][pc = "dedup" =>
       \A i \in Items :
         (entries[i].contentHash = 0 /\ entries'[i].contentHash = i) =>
           entries'[i].downloadStatus = entries[i].downloadStatus]_vars

\* the magic type of the file contradicts the recorded media kind
contradicts(p) ==
  \/ p.mediaType = "video" /\ p.magic \in {"jpg", "png"}
  \/ p.mediaType = "image" /\ p.magic \in {"mp4", "mov"}

\* C13: when verification has examined a file whose magic type contradicts
\* the entry's media kind, the entry has status failed and failureStage
\* verification.
C13_VerificationSoundness ==
  [][(pc = "verify" /\ stagePc = "work" /\ stagePc' = "next" /\ contradicts(probe)) =>
       /\ entries'[cursor].downloadStatus = "failed"
       /\ entries'[cursor].failureStage = "verification"]_vars
\* C14: in the second of two successive runs on the same output directory,
\* no fetch is made for an item the first run downloaded and recorded.
C14_SecondRunNoFetch ==
  runs = TwiceRuns =>
    \A i \in Items :
      loaded[i].downloadStatus = "downloaded" => jobPc[i] # "fetching"
\* the positions of run() after restoreEntriesFromState
RestoredPcs ==
  {"ensureDirs", "downloadDirs", "download", "postProcessDirs", "postProcess",
   "metadata", "dedupDirs", "dedup", "populate", "verify", "report", "save", "saving",
   "writeReport", "cleanup"}

\* the order of the statuses of a successful item; failed is outside it
rank(status) ==
  CASE status = "pending" -> 0
    [] status = "downloading" -> 1
    [] status = "downloaded" -> 2
    [] status = "processed" -> 3
    [] status = "metadata" -> 4
    [] status = "deduped" -> 5
    [] OTHER -> 6

forward(a, b) == rank(a) < rank(b) /\ rank(b) < 6

\* the entry was failed by a stage of this run: every stage that fails an
\* entry tags it, restoreEntriesFromState restores no tag
failedInRun(i) ==
  entries[i].downloadStatus = "failed" /\ entries[i].failureStage # "none"

sameOutcome(i) ==
  /\ entries'[i].downloadStatus = entries[i].downloadStatus
  /\ entries'[i].finalPath = entries[i].finalPath
  /\ entries'[i].contentHash = entries[i].contentHash

withStatus(status) == {i \in inRun : entries[i].downloadStatus = status}

C17_FailureAttribution ==
  summaryComputed =>
    \A i \in inRun :
      entries[i].downloadStatus = "failed" =>
        entries[i].failureStage # "none" /\ entries[i].errors > 0

\* the failed items of the run tagged with the given stage
failedAt(stage) ==
  {i \in inRun : entries[i].downloadStatus = "failed" /\ entries[i].failureStage = stage}

\* C18: the summary has a failure breakdown whose counters are the numbers
\* of failed items per failureStage and sum to the failures count.
C18_FailureBreakdown ==
  summaryComputed =>
    LET s == buildSummary IN
      /\ "failureBreakdown" \in DOMAIN s
      /\ s.failureBreakdown.download = Cardinality(failedAt("download"))
      /\ s.failureBreakdown.postProcess = Cardinality(failedAt("post-process"))
      /\ s.failureBreakdown.metadata = Cardinality(failedAt("metadata"))
      /\ s.failureBreakdown.verification = Cardinality(failedAt("verification"))
      /\ s.failureBreakdown.other = Cardinality(failedAt("other"))
      /\ s.failureBreakdown.download + s.failureBreakdown.postProcess
           + s.failureBreakdown.metadata + s.failureBreakdown.verification
           + s.failureBreakdown.other = s.failures
\* C20: during the fetch stage the number of jobs started and not finished
\* (fetching, in backoff, in the throttle delay or on the pause gate) is at
\* most the configured concurrency.
C20_BoundedConcurrency ==
  pc = "download" =>
    Cardinality({i \in Items : Running(i)}) <= options.concurrency

\* with width 1, one job sleeps in its throttle delay while another waits
\* in the queue
C20_Witness ==
  /\ pc = "download" /\ options.concurrency = 1
  /\ \E i \in Items, j \in Items : jobPc[i] = "throttle" /\ jobPc[j] = "queued"
\* the delay before attempt n + 1 when each delay is twice the one before
\* it, capped at the ceiling
RECURSIVE doubling(_)
doubling(n) ==
  IF n <= 1 THEN BackoffBaseMs ELSE Min(2 * doubling(n - 1), BackoffCeilingMs)

\* C19: a job in backoff after failed attempt N sleeps min(2000 * 2^(N-1),
\* 30000) ms with N < retryLimit; the delay is at least the one slept after
\* attempt N - 1, twice it up to the ceiling, and never above 30000 ms.
C19_BackoffMonotone ==
  \A i \in Items :
    jobPc[i] = "backoff" =>
      LET N == attempt[i] IN
        /\ N >= 1 /\ N < options.retryLimit
        /\ delay(i) = doubling(N)
        /\ delay(i) <= BackoffCeilingMs
        /\ N > 1 =>
             /\ delay(i) >= backoffDelay(N - 1)
             /\ delay(i) = Min(2 * backoffDelay(N - 1), BackoffCeilingMs)

\* a job sleeps at the ceiling for the second time
C19_Witness ==
  \E i \in Items :
    /\ jobPc[i] = "backoff" /\ attempt[i] = 6
    /\ delay(i) = BackoffCeilingMs /\ backoffDelay(5) = BackoffCeilingMs
    /\ backoffDelay(4) < BackoffCeilingMs

\* a verify-only run has returned its summary
verifyOnlyOver ==
  /\ pc = "idle" /\ lastResult.kind = "summary"
  /\ request.verifyOnly /\ ~request.dryRun

\* C21: at the end of a verify-only run every item of the run whose final
\* file is absent from the final directory has status failed.
C21_VerifyModeMissing ==
  verifyOnlyOver =>
    \A i \in inRun : i \notin finalFile => entries[i].downloadStatus = "failed"

\* a full run has completed: its state table is saved and run() has returned
runCompleted ==
  pc = "idle" /\ lastResult.kind = "summary" /\ lastResult.at = "cleanup"

\* the entries a retry-failed-only run started now would keep: load() reads
\* the saved table, the filter selects its failed records
retrySelection ==
  retryFilter([retryFailedOnly |-> TRUE, dryRun |-> FALSE, verifyOnly |-> FALSE], disk)

\* C22: every item that ended a completed run with status failed is selected
\* by a retry-failed-only run that follows immediately.
C22_RetryCoversEveryFailure ==
  runCompleted =>
    \A i \in inRun : entries[i].downloadStatus = "failed" => i \in retrySelection

C24_UpsertFrame ==
  [][(lastCall'.op = "upsert" /\ tick' # tick) =>
       LET i == lastCall'.index
           f == lastCall'.fields
       IN  /\ \A j \in Items \ {i} : store'[j] = store[j]
           /\ \A k \in FieldNames :
                store'[i][k] = IF k \in DOMAIN f THEN f[k] ELSE store[i][k]]_vars

\* a failed status was merged into a record that keeps its downloaded path
C24_Witness ==
  /\ lastCall.op = "upsert"
  /\ DOMAIN lastCall.fields = {"downloadStatus", "failureStage"}
  /\ store[lastCall.index].downloadStatus = "failed"
  /\ store[lastCall.index].downloadedPath = TRUE
  /\ \E j \in Items : j # lastCall.index /\ store[j] = PriorDownloaded

\* C25: assigning fields of the value get(index) returned does not change
\* the stored table.
C25_GetReturnsCopy ==
  [][(lastCall'.op = "mutate" /\ tick' # tick) => store' = store]_vars

C27_AtomicSave ==
  (pc = "idle" /\ lastResult.kind = "crash") => disk # Torn

\* C28: when every job of the fetch stage has settled, the table holds for
\* each item fetched or exhausted in this run a record with the status and
\* the attempts of its outcome, and the record of every other index is the
\* loaded one.
C28_ConcurrentUpsert ==
  (pc = "download" /\ AllJobsDone) =>
    \A i \in Items :
      IF i \in inRun /\ jobResult[i] \in {"downloaded", "failed"}
      THEN /\ store[i].downloadStatus = jobResult[i]
           /\ store[i].downloadStatus = entries[i].downloadStatus
           /\ store[i].attempts = attempt[i]
           /\ store[i].attempts = entries[i].attempts
      ELSE store[i] = loaded[i]

\* two workers ran side by side; one exhausted its retries on the second
\* attempt, the other succeeded
C28_Witness ==
  /\ pc = "download" /\ AllJobsDone /\ options.concurrency = 2
  /\ \E i \in inRun, j \in inRun :
       /\ jobResult[i] = "failed" /\ attempt[i] = 2
       /\ jobResult[j] = "downloaded"
       /\ loaded[j].downloadStatus = "failed"

\* C29: under the delete policy an item the deduplication stage found to
\* have the content of an earlier item still has status deduped when the
\* summary is computed.
C29_DuplicateStaysDeduped ==
  (summaryComputed /\ strategy = "delete") =>
    \A k \in inRun :
      entries[k].contentHash \notin {0, k} => entries[k].downloadStatus = "deduped"

\* C30: every fetch attempt terminates, with success or with a failure,
\* whatever the remote does.
C30_AttemptTerminates ==
  \A i \in Items :
    (jobPc[i] \in {"fetching", "resolving", "headers", "body"}) ~>
      (jobPc[i] \notin {"fetching", "resolving", "headers", "body"})

\* C32: no step of a stage shortens the errors list of an item, and no
\* upsert shortens the errors list the table holds for an index, whether that
\* list was written in this run or loaded from an earlier one.
C32_ErrorsAppendOnly ==
  [][(pc \in RestoredPcs /\ pc' \in RestoredPcs) =>
       \A i \in Items :
         /\ entries'[i].errors >= entries[i].errors
         /\ store'[i].errors >= store[i].errors]_vars

\* C33: an item that has exhausted its retries has one error per failed
\* attempt of the run, and the table holds the same errors for it.
C33_ErrorsPerAttempt ==
  pc = "download" =>
    \A i \in inRun :
      jobResult[i] = "failed" =>
        /\ entries[i].errors = attempt[i]
        /\ entries[i].errors = store[i].errors

\* C34: the paused value a subscribed listener was last called with is the
\* gate's paused flag.
C34_ListenerConsistency ==
  \A l \in listeners : delivered[l] # {} => delivered[l] = {paused}

C36_FetchStageTotal ==
  pc = "postProcessDirs" =>
    \A i \in inRun : entries[i].downloadStatus \in {"downloaded", "failed"}

\* C37: a record of the state file with status downloaded has no
\* failureStage and no errors.
C37_NoStaleFailure ==
  \A i \in Items :
    disk[i].downloadStatus = "downloaded" =>
      (disk[i].failureStage = "none" /\ disk[i].errors = 0)

C40_RunTerminates ==
  /\ isRunning ~> ~isRunning
  /\ [](runCompleted =>
          \A i \in inRun :
            entries[i].downloadStatus \in
              {"downloaded", "processed", "metadata", "deduped", "failed"})

\* C31: the temporary extraction directory of an archive payload exists
\* only while handleZipPayload is at work on its item: once the composer has
\* handled the payload, with success or with a failure at any step, the
\* directory is gone.
C31_ExtractDirRemoved ==
  \A i \in extractDirs :
    payload[i].magic = "zip" =>
      /\ pc = "postProcess" /\ cursor = i
      /\ stagePc \in {"compose", "remove", "removeFailed"}

\* C38: the composer never starts the plain copy for an item whose fetched
\* payload is an archive.
C38_ContainerPath ==
  (pc = "postProcess" /\ stagePc = "work") => payload[cursor].magic # "zip"

\* in the second run the composer has taken the container path for an
\* archive delivered without the .zip extension whose fetch was skipped by
\* resume, so that its entry does not have the flag
C38_Witness ==
  /\ runs = TwiceRuns /\ pc = "postProcess" /\ stagePc = "zip"
  /\ jobResult[cursor] = "skipped" /\ cursor \notin isZipPayload
  /\ payload[cursor] = [magic |-> "zip", ext |-> ".jpg"]

====
